---- MODULE Spec2Model ----
(***************************************************************************)
(* Resume Interview Coach (src/app.py): the text normaliser, the section   *)
(* splitter, the question bank builder and the session state machine that  *)
(* the four Gradio handlers (start_session, next_question, submit_answer,  *)
(* export_session) drive.                                                  *)
(*                                                                         *)
(* A text is a run-length encoded string: a sequence of runs               *)
(* [c |-> class, n |-> count].  The classes are "nl" (\n), "cr" (\r),      *)
(* "sp" (space), "tab", "colon", "x" (any other non-blank character) and   *)
(* the six header words; a header word is one run whose count is the       *)
(* length of the word.  Lengths and slices are counted in characters, so   *)
(* the thresholds of the code (120, 800, 1500, 3000) keep their values.    *)
(* A short string (a question, an answer, a file name) is a sequence of    *)
(* one-character strings.                                                  *)
(*                                                                         *)
(* Spec is the session driven by the four handlers; FnSpec calls           *)
(* split_sections and build_bank_from_text on their own, over texts.       *)
(***************************************************************************)
EXTENDS Integers, Sequences, FiniteSets, TLC

Min(a, b) == IF a < b THEN a ELSE b
Max(a, b) == IF a > b THEN a ELSE b

(* ------------------------------ HEADERS ------------------------------- *)

\* The section labels of HEADERS, in the order of the list.
HEADERS == <<"summary", "education", "experience", "projects", "skills", "certifications">>

Keys == {HEADERS[i] : i \in 1..Len(HEADERS)}

\* The length of the first alternative of each header pattern.
WordLen(key) ==
    CASE key = "summary" -> 7
      [] key = "education" -> 9
      [] key = "experience" -> 10
      [] key = "projects" -> 8
      [] key = "skills" -> 6
      [] key = "certifications" -> 14

\* What \s matches, and what str.strip() removes.
WS == {"nl", "cr", "sp", "tab"}

Run(c, n) == [c |-> c, n |-> n]
Word(key) == Run(key, WordLen(key))

(* --------------------------- string helpers --------------------------- *)

RECURSIVE TextLen(_)
\* len(t)
TextLen(t) == IF t = <<>> THEN 0 ELSE Head(t).n + TextLen(Tail(t))

RECURSIVE Merge(_)
\* The canonical run-length form: adjacent runs of one character class are
\* one run (header words are words, not runs, and stay apart).
Merge(t) ==
    IF Len(t) < 2 THEN t
    ELSE IF t[1].c = t[2].c /\ t[1].c \notin Keys
         THEN Merge(<<Run(t[1].c, t[1].n + t[2].n)>> \o SubSeq(t, 3, Len(t)))
         ELSE <<t[1]>> \o Merge(Tail(t))

RECURSIVE SubText(_, _, _)
\* t[a:b] for 0 <= a, counted in characters; a cut header word is no
\* longer a header word because its count is no longer the word's length.
SubText(t, a, b) ==
    IF t = <<>> \/ b <= 0 THEN <<>>
    ELSE LET h == Head(t)
             lo == Max(a, 0)
             hi == Min(b, h.n)
             rest == SubText(Tail(t), a - h.n, b - h.n)
         IN IF hi > lo THEN <<Run(h.c, hi - lo)>> \o rest ELSE rest

RECURSIVE LStrip(_)
LStrip(t) == IF t # <<>> /\ Head(t).c \in WS THEN LStrip(Tail(t)) ELSE t

RECURSIVE RStrip(_)
RStrip(t) ==
    IF t # <<>> /\ t[Len(t)].c \in WS THEN RStrip(SubSeq(t, 1, Len(t) - 1)) ELSE t

\* str.strip()
Strip(t) == RStrip(LStrip(t))

\* sep.join(texts)
RECURSIVE Join(_, _)
Join(sep, texts) ==
    IF texts = <<>> THEN <<>>
    ELSE IF Len(texts) = 1 THEN texts[1]
    ELSE texts[1] \o sep \o Join(sep, Tail(texts))

(* ----------------------------- clean_text ----------------------------- *)

\* re.sub(r"\r", "\n", t)
SubCr(t) == Merge([i \in 1..Len(t) |-> IF t[i].c = "cr" THEN Run("nl", t[i].n) ELSE t[i]])

\* re.sub(r"[ \t]+", " ", t)
SubBlanks(t) ==
    LET u == Merge([i \in 1..Len(t) |-> IF t[i].c = "tab" THEN Run("sp", t[i].n) ELSE t[i]])
    IN [i \in 1..Len(u) |-> IF u[i].c = "sp" THEN Run("sp", 1) ELSE u[i]]

\* re.sub(r"\n{3,}", "\n\n", t)
SubNewlines(t) == [i \in 1..Len(t) |-> IF t[i].c = "nl" /\ t[i].n >= 3 THEN Run("nl", 2) ELSE t[i]]

clean_text(t) == Strip(SubNewlines(SubBlanks(SubCr(t))))

(* --------------------------- split_sections --------------------------- *)

\* The characters of t before run i.
Offset(t, i) == TextLen(SubSeq(t, 1, i - 1))

\* The first run at or after i that is not whitespace (Len(t) + 1 if none).
FirstNonWS(t, i) ==
    LET S == {k \in i..Len(t) : t[k].c \notin WS}
    IN IF S = {} THEN Len(t) + 1 ELSE CHOOSE k \in S : \A m \in S : k <= m

\* The first run of the whitespace that ends right before run j.
WsRunStart(t, j) ==
    LET S == {r \in 1..j : \A k \in r..(j - 1) : t[k].c \in WS}
    IN CHOOSE r \in S : \A m \in S : r <= m

HasNl(t, a, b) == \E k \in a..b : t[k].c = "nl"

\* (^|\n)\s* before the header word at run j: the offset at which the
\* leftmost match starts, -1 when there is none.
LeadStart(t, j) ==
    LET r == WsRunStart(t, j)
        N == {k \in r..(j - 1) : t[k].c = "nl"}
    IN IF r = 1 THEN 0
       ELSE IF N = {} THEN -1
       ELSE Offset(t, CHOOSE k \in N : \A m \in N : k <= m)

\* \s*:?\s*($|\n) after the header word at run j.
TrailOK(t, j) ==
    LET k == FirstNonWS(t, j + 1)
    IN \/ HasNl(t, j + 1, k - 1)
       \/ k > Len(t)
       \/ /\ t[k].c = "colon"
          /\ t[k].n = 1
          /\ LET k2 == FirstNonWS(t, k + 1)
             IN HasNl(t, k + 1, k2 - 1) \/ k2 > Len(t)

\* re.search(rf"(^|\n)\s*{pat}\s*:?\s*($|\n)", t, flags=re.I) for the
\* pattern of `key`: m.start(), or -1 when m is None.
HeaderSearch(key, t) ==
    LET S == {j \in 1..Len(t) : t[j] = Word(key) /\ LeadStart(t, j) >= 0 /\ TrailOK(t, j)}
    IN IF S = {} THEN -1 ELSE LeadStart(t, CHOOSE j \in S : \A m \in S : j <= m)

RECURSIVE FoundFrom(_, _)
\* The loop over HEADERS from entry i on: found, as (m.start(), key) pairs.
FoundFrom(t, i) ==
    IF i > Len(HEADERS) THEN <<>>
    ELSE LET s == HeaderSearch(HEADERS[i], t)
         IN (IF s >= 0 THEN <<(<<s, HEADERS[i]>>)>> ELSE <<>>) \o FoundFrom(t, i + 1)

\* Mutant of SortFound: found is left in the order of HEADERS.
SortFound_Unsorted(found) == found

\* found.sort(): two keys never share a start, so the start decides.
SortFound(found) == SortSeq(found, LAMBDA a, b : a[1] < b[1])

HasKey(sections, key) == \E i \in 1..Len(sections) : sections[i].key = key

\* Mutant of split_sections: the "experience" fallback is left out.
split_sections_NoFallback(text) ==
    LET t == clean_text(text)
        found == SortFound(FoundFrom(t, 1))
        sections == [i \in 1..Len(found) |->
                        [key |-> found[i][2],
                         body |-> Strip(SubText(t, found[i][1],
                                     IF i + 1 <= Len(found) THEN found[i + 1][1] ELSE TextLen(t)))]]
    IN IF found = <<>> THEN <<[key |-> "summary", body |-> t]>> ELSE sections

\* Mutant of split_sections: no early return when nothing is found.
split_sections_NoEarlyReturn(text) ==
    LET t == clean_text(text)
        found == SortFound(FoundFrom(t, 1))
        sections == [i \in 1..Len(found) |->
                        [key |-> found[i][2],
                         body |-> Strip(SubText(t, found[i][1],
                                     IF i + 1 <= Len(found) THEN found[i + 1][1] ELSE TextLen(t)))]]
    IN IF ~HasKey(sections, "experience") /\ TextLen(t) > 800
       THEN sections \o <<[key |-> "experience", body |-> SubText(t, 0, 1500)]>>
       ELSE sections

\* The mapping returned by split_sections, as the sequence of its
\* (key, body) items in insertion order.
split_sections(text) ==
    LET t == clean_text(text)
        found == SortFound(FoundFrom(t, 1))
        sections == [i \in 1..Len(found) |->
                        [key |-> found[i][2],
                         body |-> Strip(SubText(t, found[i][1],
                                     IF i + 1 <= Len(found) THEN found[i + 1][1] ELSE TextLen(t)))]]
    IN IF found = <<>> THEN <<[key |-> "summary", body |-> t]>>
       ELSE IF ~HasKey(sections, "experience") /\ TextLen(t) > 800
            THEN sections \o <<[key |-> "experience", body |-> SubText(t, 0, 1500)]>>
            ELSE sections

(* ---------------------------- short strings --------------------------- *)

RECURSIVE LStripChars(_, _)
LStripChars(s, chars) ==
    IF s # <<>> /\ Head(s) \in chars THEN LStripChars(Tail(s), chars) ELSE s

RECURSIVE RStripChars(_, _)
RStripChars(s, chars) ==
    IF s # <<>> /\ s[Len(s)] \in chars THEN RStripChars(SubSeq(s, 1, Len(s) - 1), chars) ELSE s

\* Mutant of StripChars: nothing is stripped.
StripChars_None(s, chars) == s

\* s.strip(chars)
StripChars(s, chars) == RStripChars(LStripChars(s, chars), chars)

\* The whitespace of a short string.
Blank == {" ", "\t", "\n", "\r"}

\* str.lower() on the letters that file names here use.
LowerChar(ch) ==
    CASE ch = "P" -> "p"
      [] ch = "D" -> "d"
      [] ch = "F" -> "f"
      [] OTHER -> ch

Lower(s) == [i \in 1..Len(s) |-> LowerChar(s[i])]

\* s.endswith(suffix)
EndsWith(s, suffix) ==
    Len(s) >= Len(suffix) /\ SubSeq(s, Len(s) - Len(suffix) + 1, Len(s)) = suffix

(* ------------------------ build_bank_from_text ------------------------ *)

\* The question-generation backend's answer to one request: the call
\* raises ("error"), or its content parses as JSON ("json", with or without
\* a "questions" key), or it does not ("text", the raw lines).
Q1 == <<"q", "1">>
Q3 == <<"w", "h", "y", "?", "3">>

QErr == [kind |-> "error"]
QNoKey == [kind |-> "json", hasq |-> FALSE, questions |-> <<>>]
QJson(qs) == [kind |-> "json", hasq |-> TRUE, questions |-> qs]
QText(lines) == [kind |-> "text", lines |-> lines]

QgenResponses ==
    { QErr, QNoKey, QJson(<<Q1, Q1>>),
      QText(<< <<"-", " ">> \o Q3 \o <<" ">>, <<>>, <<"*", " ">> \o Q1 >>) }

\* k_map.get(sec, 2)
k_map(sec) ==
    CASE sec = "experience" -> 5
      [] sec = "projects" -> 5
      [] sec = "skills" -> 4
      [] sec = "education" -> 3
      [] sec = "summary" -> 2
      [] sec = "certifications" -> 2
      [] OTHER -> 2

\* Mutant of Eligible: only empty bodies are skipped.
Eligible_NonEmpty(body) == body # <<>>

\* not (not body or len(body) < 120): the section gets a backend request.
Eligible(body) == body # <<>> /\ TextLen(body) >= 120

\* The sections a request is sent for, by position in the mapping.
EligibleIdx(sections) == {i \in 1..Len(sections) : Eligible(sections[i].body)}

\* The prompt sent for one section: its label, body[:3000] and k.
QgenRequest(sec) ==
    [k |-> k_map(sec.key), text |-> SubText(sec.body, 0, 3000), section |-> sec.key]

RECURSIVE FallbackQuestions(_)
\* The fallback for a non-JSON answer: every line, stripped of bullet
\* marks and blanks, that is longer than 4 characters.  "*" stands for
\* the bullet character U+2022 of line.strip.
FallbackQuestions(lines) ==
    IF lines = <<>> THEN <<>>
    ELSE LET s == StripChars(StripChars(Head(lines), {"-", "*", " "}), Blank)
         IN (IF Len(s) > 4 THEN <<s>> ELSE <<>>) \o FallbackQuestions(Tail(lines))

\* data.get("questions", []) after the parse and its fallback.
QuestionsOf(r) ==
    IF r.kind = "json" THEN (IF r.hasq THEN r.questions ELSE <<>>)
    ELSE FallbackQuestions(r.lines)

\* f"[Error creating questions for {sec}: {e}]"
ErrorQuestion(sec) == <<"[Error creating questions for ", sec, "]">>

\* Mutant of SectionEntries: a failed request leaves no trace in the bank.
SectionEntries_Silent(sec, r) ==
    IF r.kind = "error"
    THEN <<>>
    ELSE LET qs == QuestionsOf(r)
         IN [j \in 1..Len(qs) |-> [section |-> sec, question |-> qs[j]]]

\* What one eligible section adds to the bank, given the backend's answer.
SectionEntries(sec, r) ==
    IF r.kind = "error"
    THEN <<[section |-> "system", question |-> ErrorQuestion(sec)]>>
    ELSE LET qs == QuestionsOf(r)
         IN [j \in 1..Len(qs) |-> [section |-> sec, question |-> qs[j]]]

RECURSIVE CollectBank(_, _, _)
\* The loop over sections.items() from item i on; resp[i] is the backend's
\* answer to the request for item i.
CollectBank(sections, resp, i) ==
    IF i > Len(sections) THEN <<>>
    ELSE (IF Eligible(sections[i].body)
          THEN SectionEntries(sections[i].key, resp[i])
          ELSE <<>>) \o CollectBank(sections, resp, i + 1)

\* random.shuffle(bank) with the permutation p.
Shuffle(bank, p) == [i \in 1..Len(bank) |-> bank[p[i]]]

\* The requests build_bank_from_text sends, in order.
RECURSIVE QgenRequests(_, _)
QgenRequests(sections, i) ==
    IF i > Len(sections) THEN <<>>
    ELSE (IF Eligible(sections[i].body) THEN <<QgenRequest(sections[i])>> ELSE <<>>)
         \o QgenRequests(sections, i + 1)

\* build_bank_from_text(text) for the backend answers resp and the
\* shuffle p.
build_bank_from_text(text, resp, p) ==
    Shuffle(CollectBank(split_sections(text), resp, 1), p)

(* --------------------------- critique answer --------------------------- *)

\* JSON values, tagged by type; a float is held in tenths.
JInt(n) == [i |-> n, t |-> "int"]
JFloat(tenths) == [t |-> "float", tenths |-> tenths]
JStr(s) == [t |-> "str", s |-> s]
JList(l) == [t |-> "list", l |-> l]
JNull == [t |-> "null"]

Digits == <<"0", "1", "2", "3", "4", "5", "6", "7", "8", "9">>

IsDigit(ch) == \E d \in 1..10 : Digits[d] = ch

DigitVal(ch) == (CHOOSE d \in 1..10 : Digits[d] = ch) - 1

RECURSIVE Decimal(_)
Decimal(s) == IF s = <<>> THEN 0 ELSE 10 * Decimal(SubSeq(s, 1, Len(s) - 1)) + DigitVal(s[Len(s)])

Raise(e) == [e |-> e, ok |-> FALSE]
Value(v) == [ok |-> TRUE, v |-> v]

\* int(v): an int is itself, a float is truncated towards zero, a string
\* is parsed as a decimal integer, anything else raises.
IntOf(v) ==
    CASE v.t = "int" -> Value(v.i)
      [] v.t = "float" -> Value(IF v.tenths >= 0 THEN v.tenths \div 10 ELSE -((-v.tenths) \div 10))
      [] v.t = "str" ->
            LET s == StripChars(v.s, Blank)
                neg == s # <<>> /\ Head(s) = "-"
                d == IF neg THEN Tail(s) ELSE s
            IN IF d # <<>> /\ \A i \in 1..Len(d) : IsDigit(d[i])
               THEN Value(IF neg THEN -Decimal(d) ELSE Decimal(d))
               ELSE Raise("ValueError")
      [] OTHER -> Raise("TypeError")

\* bool(v)
Truthy(v) ==
    CASE v.t = "int" -> v.i # 0
      [] v.t = "float" -> v.tenths # 0
      [] v.t = "str" -> v.s # <<>>
      [] v.t = "list" -> v.l # <<>>
      [] OTHER -> FALSE

\* Whether `for f in v` runs.
Iterable(v) == v.t \in {"str", "list"}

\* The critique backend's answer to one request: the call raises
\* ("error"), its content is not JSON ("text"), is JSON but no object
\* ("array"), or is a JSON object with the keys `keys`.
CErr == [kind |-> "error"]
CText == [kind |-> "text"]
CArray == [kind |-> "array"]
CObj(keys, fb, rating, sample) ==
    [kind |-> "json", keys |-> keys, rating |-> rating, feedback |-> fb, sample_answer |-> sample]

AllKeys == {"rating", "feedback", "sample_answer"}
Fb == JList(<< <<"f">> >>)
Smp == JStr(<<"s">>)

CritResponses ==
    { CErr, CText, CArray,
      CObj(AllKeys, Fb, JInt(4), Smp),
      CObj(AllKeys, Fb, JFloat(47), Smp),
      CObj(AllKeys, Fb, JStr(<<" ", "4">>), Smp),
      CObj(AllKeys, Fb, JInt(9), Smp),
      CObj(AllKeys, Fb, JStr(<<"a", "b">>), Smp),
      CObj(AllKeys, Fb, JNull, Smp),
      CObj({"feedback"}, JInt(5), JNull, JNull) }

\* The dict substituted when json.loads fails.
NonJsonData == CObj(AllKeys, JList(<< <<"(Model returned non-JSON; retry)">> >>), JInt(0), JStr(<<>>))

\* data after the parse and its fallback.
CritData(r) == IF r.kind = "text" THEN NonJsonData ELSE r

\* data.get(key, default)
Get(data, key, default) == IF key \in data.keys THEN data[key] ELSE default

\* int(data.get("rating", 0))
RatingOf(data) == IntOf(Get(data, "rating", JInt(0)))

\* data.get("feedback", [])
FeedbackOf(data) == Get(data, "feedback", JList(<<>>))

\* data.get("sample_answer", "")
SampleOf(data) == Get(data, "sample_answer", JStr(<<>>))

(* ------------------------------- inputs ------------------------------- *)

X(n) == Run("x", n)
NL(n) == Run("nl", n)

\* Uploaded files: a name and, for a PDF, page.extract_text() of each page
\* (None is the empty text).
NamePdf == <<"a", ".", "p", "d", "f">>
NamePDF == <<"B", ".", "P", "D", "F">>
NameTxt == <<"c", ".", "t", "x", "t">>

\* A scanned PDF: one page, no text layer.
PdfEmpty == [name |-> NamePdf, pages |-> << <<>> >>]
\* A PDF with too little text for any question.
PdfShort == [name |-> NamePDF, pages |-> << <<Run("sp", 2), X(50), Run("cr", 1), NL(1)>> >>]
\* Two pages: a long "skills" section, then a short "education" section.
PdfOne ==
    [name |-> NamePdf,
     pages |-> << <<X(30), NL(4), Word("skills"), Run("tab", 1), Run("colon", 1), NL(1), X(200)>>,
                  <<Word("education"), NL(1), X(40)>> >>]
\* A long resume with an "education" header and no "experience" header.
PdfLong == [name |-> NamePDF, pages |-> << <<Word("education"), NL(1), X(900)>> >>]
\* Not a PDF.
Txt == [name |-> NameTxt, pages |-> << <<X(500)>> >>]

FileLists == { <<>>, <<Txt>>, <<PdfEmpty>>, <<PdfShort>>, <<Txt, PdfOne>>, <<PdfLong>> }

\* What the answer box can hold.
Answers == { <<>>, <<" ", "\n">>, <<" ", "a", " ">> }

(* -------------------------------- bounds ------------------------------- *)

\* Transcript entries per session.
MaxTranscript == 2
\* next_question calls counted per session.
MaxNext == 5

(* -------------------------------- state -------------------------------- *)

\* state["current"] is None
None == -1

VARIABLES
    bank,        \* state["bank"]: the shuffled question bank
    asked,       \* state["asked"]: the indices (from 0) already selected
    current,     \* state["current"]: the index on display, or None
    transcript,  \* state["transcript"]
    call,        \* the handler invoked last, with its arguments
    msg,         \* what that handler returned beside the state
    requests,    \* the question-generation requests of the last build
    sent,        \* the critique request that handler sent, if any
    nextCalls    \* next_question calls since the last start_session

vars == <<bank, asked, current, transcript, call, msg, requests, sent, nextCalls>>

session == <<bank, asked, current, transcript>>

\* gr.State({"bank": [], "asked": set(), "current": None, "transcript": []})
Init ==
    /\ bank = <<>>
    /\ asked = {}
    /\ current = None
    /\ transcript = <<>>
    /\ call = [op |-> "none"]
    /\ msg = [kind |-> "none"]
    /\ requests = <<>>
    /\ sent = <<>>
    /\ nextCalls = 0

(* ---------------------------- start_session ---------------------------- *)

\* extract_text_from_pdf_bytes: "\n".join(text_pages).strip()
extract_text_from_pdf_bytes(pages) == Strip(Join(<<NL(1)>>, pages))

\* f.name.lower().endswith(".pdf")
IsPdf(f) == EndsWith(Lower(f.name), <<".", "p", "d", "f">>)

RECURSIVE Texts(_)
\* The loop over files: the extracted text of every file named *.pdf.
Texts(files) ==
    IF files = <<>> THEN <<>>
    ELSE (IF IsPdf(Head(files)) THEN <<extract_text_from_pdf_bytes(Head(files).pages)>> ELSE <<>>)
         \o Texts(Tail(files))

\* "\n\n" + ("\n\n" + ("-"*80) + "\n\n").join(texts)
Combined(texts) == <<NL(2)>> \o Join(<<NL(2), X(80), NL(2)>>, texts)

\* Mutant of NewState: the old set of asked indices is carried over.
NewState_KeepAsked(b) == [bank |-> b, asked |-> asked, current |-> None, transcript |-> <<>>]

\* Mutant of NewState: the old transcript is carried into the new session.
NewState_KeepTranscript(b) == [bank |-> b, asked |-> {}, current |-> None, transcript |-> transcript]

\* The state start_session returns: a new one around `b`.
NewState(b) == [bank |-> b, asked |-> {}, current |-> None, transcript |-> <<>>]

\* Mutant of WarnState: the warning comes with the state as it was.
WarnState_Keep == [bank |-> bank, asked |-> asked, current |-> current, transcript |-> transcript]

\* The state start_session returns with its warnings.
WarnState == NewState(<<>>)

SetState(st) ==
    /\ bank' = st.bank
    /\ asked' = st.asked
    /\ current' = st.current
    /\ transcript' = st.transcript

\* What start_session(files) can return, one record per answer of the
\* backend and per shuffle: the message, the new state, and the requests
\* sent on the way.
start_session(files) ==
    IF files = <<>>
    THEN {[msg |-> [kind |-> "warn_upload"], requests |-> <<>>, state |-> WarnState]}
    ELSE IF Texts(files) = <<>>
    THEN {[msg |-> [kind |-> "warn_no_pdf"], requests |-> <<>>, state |-> WarnState]}
    ELSE LET combined == Combined(Texts(files))
             sections == split_sections(combined)
         IN UNION { LET n == Len(CollectBank(sections, resp, 1))
                    IN {[msg |-> [n |-> n, kind |-> "built"],
                         requests |-> QgenRequests(sections, 1),
                         state |-> NewState(build_bank_from_text(combined, resp, p))] : p \in Permutations(1..n)}
                    : resp \in [EligibleIdx(sections) -> QgenResponses] }

\* Every (files, return) pair of start_session over the inputs.
BuildOutcomes == UNION {{[files |-> files, ret |-> r] : r \in start_session(files)} : files \in FileLists}

StartSession ==
    \E o \in BuildOutcomes :
        /\ call' = [op |-> "start_session", files |-> o.files]
        /\ msg' = o.ret.msg
        /\ SetState(o.ret.state)
        /\ requests' = o.ret.requests
        /\ nextCalls' = 0
        /\ sent' = <<>>

(* ---------------------------- next_question ---------------------------- *)

\* Mutants of Candidates: no filter on asked; only the index on display
\* is left out; range(len(bank) - 1).
Candidates_All(b, a) == 0..(Len(b) - 1)
Candidates_NotCurrent(b, a) == {i \in 0..(Len(b) - 1) : i # current}
Candidates_SkipLast(b, a) == {i \in 0..(Len(b) - 2) : i \notin a}

\* [i for i in range(len(bank)) if i not in asked]
Candidates(b, a) == {i \in 0..(Len(b) - 1) : i \notin a}

\* Mutant of NextQuestion: state["current"] is not reset when no
\* candidate is left.
NextQuestion_KeepCurrent ==
    /\ nextCalls < MaxNext
    /\ nextCalls' = nextCalls + 1
    /\ call' = [op |-> "next_question"]
    /\ sent' = <<>>
    /\ UNCHANGED <<bank, transcript, requests>>
    /\ IF Candidates(bank, asked) = {}
       THEN /\ UNCHANGED current
            /\ msg' = [kind |-> "completed"]
            /\ UNCHANGED asked
       ELSE \E idx \in Candidates(bank, asked) :
               /\ asked' = asked \cup {idx}
               /\ current' = idx
               /\ msg' = [kind |-> "question", section |-> bank[idx + 1].section,
                          question |-> bank[idx + 1].question]

NextQuestion ==
    /\ nextCalls < MaxNext
    /\ nextCalls' = nextCalls + 1
    /\ call' = [op |-> "next_question"]
    /\ sent' = <<>>
    /\ UNCHANGED <<bank, transcript, requests>>
    /\ IF Candidates(bank, asked) = {}
       THEN /\ current' = None
            /\ msg' = [kind |-> "completed"]
            /\ UNCHANGED asked
       ELSE \E idx \in Candidates(bank, asked) :
               /\ asked' = asked \cup {idx}
               /\ current' = idx
               /\ msg' = [kind |-> "question", section |-> bank[idx + 1].section,
                          question |-> bank[idx + 1].question]

(* ---------------------------- submit_answer ---------------------------- *)

\* idx is None or idx >= len(bank)
NoActiveQuestion(idx, b) == idx = None \/ idx >= Len(b)

\* The dict appended to the transcript.  Its "ts" (time.time(), the wall
\* clock) is left out: nothing reads it back.
\* A record has no field order, so the dict's key order is not modelled.
Entry(qitem, answer, data) ==
    [section |-> qitem.section, question |-> qitem.question,
     rating |-> RatingOf(data).v, feedback |-> FeedbackOf(data),
     sample_answer |-> SampleOf(data), answer |-> answer]

\* Mutant of OnRaise: the entry is appended before the request is sent.
OnRaise_Appended(qitem, answer) ==
    [msg |-> [kind |-> "api_error", e |-> "backend"], append |-> <<Entry(qitem, answer, NonJsonData)>>]

\* The except clause when the backend call itself raises: nothing was
\* appended, the error is returned.
OnRaise(qitem, answer) == [msg |-> [kind |-> "api_error", e |-> "backend"], append |-> <<>>]

\* The try block of submit_answer once the backend answered r: what is
\* appended to the transcript and what is returned.
Critique(qitem, answer, r) ==
    IF r.kind = "error" THEN OnRaise(qitem, answer)
    ELSE IF r.kind = "array" THEN [msg |-> [kind |-> "api_error", e |-> "AttributeError"], append |-> <<>>]
    ELSE LET data == CritData(r)
         IN IF ~RatingOf(data).ok
            THEN [msg |-> [kind |-> "api_error", e |-> RatingOf(data).e], append |-> <<>>]
            ELSE IF Truthy(FeedbackOf(data)) /\ ~Iterable(FeedbackOf(data))
            THEN [msg |-> [kind |-> "api_error", e |-> "TypeError"],
                  append |-> <<Entry(qitem, answer, data)>>]
            ELSE [msg |-> [kind |-> "rated", rating |-> RatingOf(data).v,
                          sample |-> SampleOf(data), feedback |-> FeedbackOf(data)],
                  append |-> <<Entry(qitem, answer, data)>>]

\* The critique request: USER_CRIT_TMPL.format(section=section,
\* question=question, answer=answer), and whether the call raised.
CritRequest(qitem, answer, r) ==
    [section |-> qitem.section, question |-> qitem.question, answer |-> answer,
     raised |-> r.kind = "error"]

\* Mutant of AppendTo: the transcript is overwritten.
AppendTo_Replace(tr, items) == items

\* state["transcript"].append(...): nothing is appended on the paths that
\* raise before it.
AppendTo(tr, items) == tr \o items

SubmitAnswer ==
    \E answer \in Answers :
        /\ call' = [op |-> "submit_answer", answer |-> answer]
        /\ UNCHANGED <<bank, asked, current, requests, nextCalls>>
        /\ IF NoActiveQuestion(current, bank)
           THEN /\ msg' = [kind |-> "warn_next_first"]
                /\ sent' = <<>>
                /\ UNCHANGED transcript
           ELSE IF StripChars(answer, Blank) = <<>>
           THEN /\ msg' = [kind |-> "warn_type_answer"]
                /\ sent' = <<>>
                /\ UNCHANGED transcript
           ELSE /\ Len(transcript) < MaxTranscript
                /\ \E r \in CritResponses :
                     LET out == Critique(bank[current + 1], StripChars(answer, Blank), r)
                     IN /\ sent' = <<CritRequest(bank[current + 1], StripChars(answer, Blank), r)>>
                        /\ transcript' = AppendTo(transcript, out.append)
                        /\ msg' = out.msg

(* ---------------------------- export_session --------------------------- *)

\* Mutant of ExportFile: the file is written whatever the transcript holds.
ExportFile_Always(tr) == [transcript |-> tr]

\* The file written by json.dump, or None.
ExportFile(tr) == IF tr = <<>> THEN [none |-> TRUE] ELSE [transcript |-> tr]

ExportSession ==
    /\ call' = [op |-> "export_session"]
    /\ msg' = [kind |-> IF transcript = <<>> THEN "warn_no_transcript" ELSE "export_ready",
               file |-> ExportFile(transcript)]
    /\ sent' = <<>>
    /\ UNCHANGED <<bank, asked, current, transcript, requests, nextCalls>>

Next == StartSession \/ NextQuestion \/ SubmitAnswer \/ ExportSession

Spec == Init /\ [][Next]_vars

(* ------------- split_sections and build_bank_from_text alone ---------- *)

\* Texts handed to the two functions directly.
\* The empty string.
DocEmpty == <<>>
\* A few words, no header.
DocShort == <<X(50)>>
\* A long resume without any header line.
DocPlain == <<X(900)>>
\* Header words that do not stand alone on their line.
DocInline == <<Word("skills"), Run("sp", 1), X(10), NL(1), X(850), Run("sp", 1), Word("experience")>>
\* An "education" header at the start of a long text without "experience".
DocEdu == <<Word("education"), NL(1), X(900)>>
\* A preamble, then "skills" before "education" (HEADERS lists them the
\* other way round); the education section is short.
DocTwo ==
    <<X(30), NL(1), Word("skills"), NL(1), X(200), NL(2),
      Word("education"), Run("colon", 1), NL(1), X(40)>>
\* "experience" and "projects", both long.
DocExp == <<Word("experience"), NL(1), X(900), NL(1), Word("projects"), NL(1), X(150)>>
\* Carriage returns, tabs, runs of blanks and of newlines around a header.
DocMessy ==
    <<Run("sp", 2), NL(1), X(20), Run("cr", 1), NL(3), Word("summary"), Run("tab", 2),
      Run("cr", 1), NL(3), X(130), Run("sp", 3), X(5), NL(2)>>
\* A long preamble before the only header.
DocLate == <<X(850), NL(1), Word("certifications"), NL(1), X(10)>>

\* A preamble, a long "skills" section, a short "education" section, and
\* more than 800 characters without an "experience" header.
DocAll ==
    <<X(30), NL(1), Word("skills"), NL(1), X(800), NL(2), Word("education"), NL(1), X(40)>>

TextInputs ==
    { DocEmpty, DocShort, DocPlain, DocInline, DocEdu, DocTwo, DocExp, DocMessy, DocLate,
      DocAll }

\* split_sections(text) called on its own: call records the argument, msg
\* the mapping returned.
SplitSections ==
    \E text \in TextInputs :
        /\ call' = [text |-> text, op |-> "split_sections"]
        /\ msg' = [sections |-> split_sections(text), kind |-> "sections"]
        /\ UNCHANGED <<bank, asked, current, transcript, requests, sent, nextCalls>>

\* Every (text, backend answers, returned bank) of build_bank_from_text
\* over the inputs, with the requests sent on the way.
BankOutcomes ==
    UNION { LET sections == split_sections(text)
            IN UNION { { [text |-> text, resp |-> resp,
                          bank |-> build_bank_from_text(text, resp, p),
                          requests |-> QgenRequests(sections, 1)]
                         : p \in Permutations(1..Len(CollectBank(sections, resp, 1))) }
                       : resp \in [EligibleIdx(sections) -> QgenResponses] }
            : text \in TextInputs }

\* build_bank_from_text(text) called on its own: call records the argument
\* and the backend's answers, bank the list returned, requests the
\* requests sent.
BuildBank ==
    \E o \in BankOutcomes :
        /\ call' = [text |-> o.text, resp |-> o.resp, op |-> "build_bank_from_text"]
        /\ msg' = [n |-> Len(o.bank), kind |-> "bank"]
        /\ bank' = o.bank
        /\ requests' = o.requests
        /\ UNCHANGED <<asked, current, transcript, sent, nextCalls>>

FnNext == SplitSections \/ BuildBank

FnSpec == Init /\ [][FnNext]_vars

(* ------------------------------ properties ----------------------------- *)

IsPrefix(s, t) == Len(s) <= Len(t) /\ SubSeq(t, 1, Len(s)) = s

\* The answer is empty once trimmed.
IsBlankAnswer(a) == \A i \in 1..Len(a) : a[i] \in Blank

\* No file is given, or none whose lowercased name ends in ".pdf".
NoPdfGiven(files) ==
    \A i \in 1..Len(files) :
        LET nm == files[i].name
        IN ~(Len(nm) >= 4 /\ nm[Len(nm) - 3] = "." /\ nm[Len(nm) - 2] \in {"p", "P"}
              /\ nm[Len(nm) - 1] \in {"d", "D"} /\ nm[Len(nm)] \in {"f", "F"})

\* Every page of every uploaded file is without text.
NoTextGiven(files) == \A i \in 1..Len(files) : \A j \in 1..Len(files[i].pages) : files[i].pages[j] = <<>>

Indices == 0..(Len(bank) - 1)

\* C1: in every reachable state asked is a subset of the valid indices
\* 0..len(bank)-1 of the current bank, and current, when it is not None,
\* is a member of asked.
C1_AskedValid == asked \subseteq Indices /\ (current # None => current \in asked)

C1_Witness ==
    /\ call.op = "submit_answer"
    /\ current # None
    /\ Cardinality(asked) = 2
    /\ Len(bank) > 2
    /\ transcript # <<>>

\* C2: between two builds next never selects an index that an earlier next
\* selected: the index a next call sets as current was not in asked before
\* the call and is in asked after it, and no step other than a build takes
\* an index out of asked.
C2_NoRepeat ==
    [][ /\ (call'.op = "next_question" /\ current' # None
               => current' \notin asked /\ current' \in asked')
        /\ (call'.op # "start_session" => asked \subseteq asked') ]_vars

C2_Witness ==
    /\ call.op = "next_question"
    /\ current # None
    /\ Cardinality(asked) = 3
    /\ transcript # <<>>

\* C3 as stated: the n-th next call after a build of n entries reports
\* exhaustion (the completion message, current None).
C3_NthCallExhausts ==
    (call.op = "next_question" /\ nextCalls = Len(bank))
        => (msg.kind = "completed" /\ current = None)

\* C3 amended: the first n next calls after a build of n entries each
\* return a question, and call n+1 reports exhaustion: the completion
\* message, with current None.
C3_CallAfterNthExhausts ==
    call.op = "next_question" =>
        /\ nextCalls <= Len(bank) => (msg.kind = "question" /\ current # None)
        /\ nextCalls = Len(bank) + 1 => (msg.kind = "completed" /\ current = None)

C3_Witness ==
    /\ call.op = "next_question"
    /\ Len(bank) = 3
    /\ nextCalls = 4
    /\ msg.kind = "completed"

\* C4 as stated: the text a next call reports differs from every text an
\* earlier next call of the session reported.
C4_NoEqualTexts ==
    [][ call'.op = "next_question" /\ msg'.kind = "question"
           => \A i \in asked : bank[i + 1].question # msg'.question ]_vars

\* C4 amended: a next call reports the text of an index not reported
\* before, so a text is reported at most as often as the bank holds it:
\* before each report, fewer earlier reports carry that text than the bank
\* has entries with it.
C4_TextAtMostAsOftenAsHeld ==
    [][ call'.op = "next_question" /\ msg'.kind = "question"
           => Cardinality({i \in asked : bank[i + 1].question = msg'.question})
                < Cardinality({i \in Indices : bank[i + 1].question = msg'.question}) ]_vars

C4_Witness ==
    /\ call.op = "next_question"
    /\ msg.kind = "question"
    /\ \E i \in asked : i # current /\ bank[i + 1].question = msg.question

\* C5: a submit whose input fails the checks (current is None, or the
\* answer is empty after trimming) returns a warning, leaves bank, asked,
\* current and transcript unchanged and sends no backend request.
C5_RejectedSubmit ==
    [][ call'.op = "submit_answer" /\ (current = None \/ IsBlankAnswer(call'.answer))
           => /\ msg'.kind \in {"warn_next_first", "warn_type_answer"}
              /\ UNCHANGED session
              /\ sent' = <<>> ]_vars

C5_Witness ==
    /\ call.op = "submit_answer"
    /\ msg.kind = "warn_type_answer"
    /\ call.answer # <<>>
    /\ current # None
    /\ transcript # <<>>

\* C6: when the critique call of a submit raises, submit returns an error
\* message, appends no transcript entry and leaves bank, asked and current
\* unchanged (so whatever follows starts from the state before it).
C6_BackendFailure ==
    [][ call'.op = "submit_answer" /\ sent' # <<>> /\ sent'[1].raised
           => msg'.kind = "api_error" /\ UNCHANGED session ]_vars

C6_Witness ==
    /\ call.op = "submit_answer"
    /\ sent # <<>>
    /\ sent[1].raised
    /\ transcript # <<>>

\* C7 as stated: a build with no files, or with no file named *.pdf,
\* leaves bank, asked, current and transcript as they were.
C7_FailedBuildKeepsState ==
    [][ call'.op = "start_session" /\ NoPdfGiven(call'.files) => UNCHANGED session ]_vars

\* C7 amended: a build with no files, or with no file named *.pdf,
\* returns a warning and replaces the session by the empty one: empty
\* bank, nothing asked, no current question, empty transcript.
C7_FailedBuildResets ==
    (call.op = "start_session" /\ NoPdfGiven(call.files))
        => /\ msg.kind \in {"warn_upload", "warn_no_pdf"}
           /\ bank = <<>> /\ asked = {} /\ current = None /\ transcript = <<>>

C7_Witness ==
    /\ call.op = "start_session"
    /\ call.files # <<>>
    /\ NoPdfGiven(call.files)
    /\ msg.kind = "warn_no_pdf"

\* C8: a build given no input, or PDFs none of which has any text,
\* returns a warning with an empty bank and never reports a built bank.
C8_NoTextIsWarned ==
    (call.op = "start_session" /\ (call.files = <<>> \/ NoTextGiven(call.files)))
        => (msg.kind \in {"warn_upload", "warn_no_pdf"} /\ bank = <<>>)

\* C9 as stated: every action, build included, leaves the transcript it
\* found as a prefix of the transcript it leaves.
C9_AppendOnlyAlways == [][IsPrefix(transcript, transcript')]_vars

\* C9 amended: next, submit and export leave the transcript they found
\* as a prefix of the transcript they leave; a build starts a new session
\* with an empty transcript.
C9_AppendOnlyInSession ==
    [][ IF call'.op = "start_session"
        THEN transcript' = <<>>
        ELSE IsPrefix(transcript, transcript') ]_vars

C9_Witness ==
    /\ call.op = "submit_answer"
    /\ msg.kind = "rated"
    /\ Len(transcript) = 2

\* C10: every transcript entry's rating is an integer in 1..5, or 0 (the
\* value recorded when the backend's answer is not JSON).
C10_RatingInRange == \A i \in 1..Len(transcript) : transcript[i].rating \in 0..5


\* C11: export with an empty transcript returns no file and a warning, and
\* export in any state leaves bank, asked, current and transcript unchanged.
C11_ExportReadOnly ==
    [][ call'.op = "export_session"
           => /\ UNCHANGED session
              /\ (transcript = <<>>
                    => msg'.kind = "warn_no_transcript" /\ "transcript" \notin DOMAIN msg'.file) ]_vars

C11_Witness ==
    /\ call.op = "export_session"
    /\ msg.kind = "warn_no_transcript"
    /\ current # None
    /\ Cardinality(asked) = 2


\* C12: the exported "transcript" list is the session's transcript, whose
\* length is the number of submits made since the build with an active
\* question, a non-empty answer and a backend call that succeeded, in
\* submission order: a build starts the count at zero, each such submit
\* adds one entry at the end, and nothing else changes the list.
C12_ExportCountsSubmits ==
    [][ /\ (call'.op = "start_session" => transcript' = <<>>)
        /\ (call'.op = "submit_answer"
              => /\ IsPrefix(transcript, transcript')
                 /\ Len(transcript') = Len(transcript)
                       + (IF sent' # <<>> /\ ~sent'[1].raised THEN 1 ELSE 0))
        /\ (call'.op = "next_question" => transcript' = transcript)
        /\ (call'.op = "export_session" /\ transcript # <<>>
              => msg'.kind = "export_ready" /\ msg'.file.transcript = transcript) ]_vars


\* The answer without its leading and trailing blanks.
TrimOf(a) ==
    LET S == {i \in 1..Len(a) : a[i] \notin Blank}
    IN IF S = {} THEN <<>>
       ELSE SubSeq(a, CHOOSE i \in S : \A j \in S : i <= j, CHOOSE i \in S : \A j \in S : i >= j)

\* C18: a submit with an active question, a non-empty trimmed answer and
\* a backend call that succeeded appends exactly one entry, whose section
\* and question are those of bank[current] and whose answer is the trimmed
\* answer, and leaves bank, asked and current unchanged, so that the index
\* stays in asked and next cannot select it again.
C18_AcceptedSubmitAppends ==
    [][ call'.op = "submit_answer" /\ current # None /\ ~IsBlankAnswer(call'.answer)
           => /\ sent' # <<>>
              /\ UNCHANGED <<bank, asked, current>>
              /\ current \in asked'
              /\ ~sent'[1].raised
                    => /\ Len(transcript') = Len(transcript) + 1
                       /\ SubSeq(transcript', 1, Len(transcript)) = transcript
                       /\ transcript'[Len(transcript')].section = bank[current + 1].section
                       /\ transcript'[Len(transcript')].question = bank[current + 1].question
                       /\ transcript'[Len(transcript')].answer = TrimOf(call'.answer) ]_vars

\* C19: after a build of n entries exactly the first n next calls return
\* a question, whatever submits and exports come between, and asked is
\* then the full index set; every later next call reports completion,
\* sets current to None and leaves asked, bank and transcript unchanged.
\* The exhausted state (everything asked, no current question) is left
\* only by a build: next, submit and export leave the session as it is,
\* and a submit is answered by the warning, with no backend request.
C19_ExhaustionIsFinal ==
    [][ /\ (call'.op = "next_question"
              => IF nextCalls' <= Len(bank)
                 THEN /\ msg'.kind = "question"
                      /\ current' \in Indices
                      /\ Cardinality(asked') = nextCalls'
                 ELSE /\ asked = Indices
                      /\ msg'.kind = "completed"
                      /\ current' = None
                      /\ UNCHANGED <<bank, asked, transcript>>)
        /\ (asked = Indices /\ current = None /\ call'.op # "start_session"
              => /\ UNCHANGED session
                 /\ (call'.op = "submit_answer"
                       => msg'.kind = "warn_next_first" /\ sent' = <<>>)) ]_vars

C19_Witness ==
    /\ call.op = "submit_answer"
    /\ msg.kind = "warn_next_first"
    /\ Len(bank) >= 2
    /\ asked = Indices
    /\ nextCalls > Len(bank)
    /\ transcript # <<>>

\* C20: every transcript entry is the entry of a question asked in the
\* current session: some index in asked holds its section and question in
\* the current bank.
C20_EntriesWereAsked ==
    \A k \in 1..Len(transcript) :
        \E i \in asked :
            /\ i \in Indices
            /\ bank[i + 1].section = transcript[k].section
            /\ bank[i + 1].question = transcript[k].question

C20_Witness ==
    /\ Len(transcript) = 2
    /\ transcript[1].question # transcript[2].question
    /\ Cardinality(asked) < Len(bank)


(* ------------------- properties of the two functions ------------------- *)

\* The normalized text and the mapping of the last split_sections call.
CalledSplit == call.op = "split_sections"
Normalized == clean_text(call.text)
Returned == msg.sections

\* No header is matched in the normalized text.
NoneMatched == FoundFrom(Normalized, 1) = <<>>

\* No "experience" header is matched in the normalized text.
NoExperienceHeader == HeaderSearch("experience", Normalized) < 0

ReturnedHas(key) == \E i \in 1..Len(Returned) : Returned[i].key = key

\* C13 as stated: a text without an "experience" header whose normalized
\* length is above 800 gets an "experience" key, also when no header at
\* all is found.
C13_LongTextHasExperience ==
    (CalledSplit /\ NoExperienceHeader /\ TextLen(Normalized) > 800) => ReturnedHas("experience")

\* C13 amended: a text in which some header is matched, none of them
\* "experience", and whose normalized length is above 800 gets an
\* "experience" key; a text in which no header is matched gets none,
\* whatever its length.
C13_LongTextWithHeaderHasExperience ==
    (CalledSplit /\ NoExperienceHeader)
        => IF NoneMatched
           THEN ~ReturnedHas("experience")
           ELSE TextLen(Normalized) > 800 => ReturnedHas("experience")

C13_Witness ==
    /\ CalledSplit
    /\ ~NoneMatched
    /\ NoExperienceHeader
    /\ TextLen(Normalized) > 800
    /\ Returned[1].key = "certifications"
    /\ ReturnedHas("experience")

RECURSIVE Bodies(_)
\* The bodies of the sections, one after the other.
Bodies(sections) ==
    IF sections = <<>> THEN <<>> ELSE Head(sections).body \o Bodies(Tail(sections))

\* A text without its whitespace.
NoWS(t) == Merge(SelectSeq(t, LAMBDA r : r.c \notin WS))

\* The sections that come from a header: all but a synthesized fallback.
FromHeaders ==
    IF NoExperienceHeader /\ TextLen(Normalized) > 800
    THEN SubSeq(Returned, 1, Len(Returned) - 1)
    ELSE Returned

\* Where the first matched header starts.
FirstHeaderStart ==
    LET found == FoundFrom(Normalized, 1)
    IN CHOOSE a \in {found[i][1] : i \in 1..Len(found)} :
          \A i \in 1..Len(found) : a <= found[i][1]

\* C14 as stated: the bodies, concatenated in the order returned, are the
\* normalized text.
C14_SpansPartitionText == CalledSplit => Merge(Bodies(Returned)) = Merge(Normalized)

\* C14 amended: when a header is matched, the sections that come from a
\* header each start with their header word and, concatenated in the order
\* returned, are the normalized text from the first matched header to the
\* end, up to the whitespace trimmed from each; the text before the first
\* matched header is in none of them, and a synthesized "experience"
\* section is the first 1500 characters again, as the last entry.
C14_SpansCoverFromFirstHeader ==
    (CalledSplit /\ ~NoneMatched)
        => /\ FromHeaders # <<>>
           /\ \A i \in 1..Len(FromHeaders) :
                 /\ FromHeaders[i].body # <<>>
                 /\ FromHeaders[i].body[1] = Word(FromHeaders[i].key)
           /\ NoWS(Bodies(FromHeaders))
                = NoWS(SubText(Normalized, FirstHeaderStart, TextLen(Normalized)))
           /\ (NoExperienceHeader /\ TextLen(Normalized) > 800)
                 => Returned[Len(Returned)]
                      = [key |-> "experience", body |-> SubText(Normalized, 0, 1500)]

C14_Witness ==
    /\ CalledSplit
    /\ ~NoneMatched
    /\ FirstHeaderStart > 0
    /\ Len(FromHeaders) = 2
    /\ FromHeaders[1].key = "skills"
    /\ Len(Returned) = 3

\* C15: split_sections returns a non-empty mapping for every text, the
\* empty string included; when no header is matched the mapping is the one
\* entry "summary" with the whole normalized text.
C15_SplitTotalNonEmpty ==
    CalledSplit
        => /\ Len(Returned) >= 1
           /\ NoneMatched => Returned = <<[key |-> "summary", body |-> Normalized]>>

C15_Witness ==
    /\ CalledSplit
    /\ call.text = <<>>
    /\ Len(Returned) = 1
    /\ Returned[1].body = <<>>

\* The argument's sections and the backend's answers of the last
\* build_bank_from_text call.
CalledBuild == call.op = "build_bank_from_text"
BuildSections == split_sections(call.text)

Count(seq, x) == Cardinality({k \in 1..Len(seq) : seq[k] = x})

\* C16: the bank has no entry from a section whose body is shorter than
\* 120 characters: none with its label, no "system" placeholder for it,
\* and no request was sent for it.
C16_ShortSectionsSkipped ==
    CalledBuild
        => \A i \in 1..Len(BuildSections) :
              TextLen(BuildSections[i].body) < 120
                 => /\ \A k \in 1..Len(bank) :
                          /\ bank[k].section # BuildSections[i].key
                          /\ bank[k].question # ErrorQuestion(BuildSections[i].key)
                    /\ \A k \in 1..Len(requests) : requests[k].section # BuildSections[i].key

C16_Witness ==
    /\ CalledBuild
    /\ bank # <<>>
    /\ \E i \in 1..Len(BuildSections) :
          BuildSections[i].body # <<>> /\ TextLen(BuildSections[i].body) < 120

\* C17: a section whose request fails leaves exactly one "system"
\* placeholder naming it, and the bank still holds every question returned
\* for every other section, as often as it was returned, whether that
\* section came before or after the failing one.
C17_FailureIsolated ==
    CalledBuild
        => \A i \in DOMAIN call.resp :
              IF call.resp[i].kind = "error"
              THEN Count(bank, [section |-> "system",
                                question |-> ErrorQuestion(BuildSections[i].key)]) = 1
              ELSE \A j \in 1..Len(QuestionsOf(call.resp[i])) :
                      Count(bank, [section |-> BuildSections[i].key,
                                   question |-> QuestionsOf(call.resp[i])[j]])
                        = Count(QuestionsOf(call.resp[i]), QuestionsOf(call.resp[i])[j])

C17_Witness ==
    /\ CalledBuild
    /\ \E i, j \in DOMAIN call.resp :
          /\ i < j
          /\ call.resp[i].kind = "error"
          /\ call.resp[j].kind = "json"
          /\ Len(QuestionsOf(call.resp[j])) = 2
    /\ Len(bank) = 3
    /\ bank[1].section = "system"

====
